---- MODULE Spec2Model ----
(***************************************************************************)
(* Model of test-fixtures/monorepo/apps/api-service/src/main.py: a FastAPI *)
(* application with two GET routes, /health and /api/users, and a process  *)
(* entry that hands the application to uvicorn.                            *)
(*                                                                         *)
(* The module body is executed statement by statement (pc), then requests  *)
(* are handled concurrently, one per connection: received, routed against  *)
(* the application's route table, the endpoint function called, its return *)
(* value serialised into the response, the response consumed.              *)
(*                                                                         *)
(* app.routes holds the routes this module registers; routes the framework *)
(* adds on its own (documentation pages) are not part of the model.        *)
(***************************************************************************)
EXTENDS Integers, Sequences, FiniteSets, TLC

\* Number of connections that can have a request in flight at once.
MaxRequests == 3

Conn == 1 .. MaxRequests

\* What a client can send: the two registered paths, one unregistered path,
\* the registered method and one unregistered method.
Methods == {"GET", "POST"}
Paths == {"/health", "/api/users", "/missing"}

\* The values __name__ can take: run as a script, or imported as `main`.
ModuleNames == {"__main__", "main"}

VARIABLES
    name,       \* __name__ of the module
    pc,         \* statement of the module body about to be executed
    app,        \* the module global `app`
    servers,    \* the calls of uvicorn.run made so far, in order
    rpc,        \* per connection: stage of the request in flight
    req,        \* per connection: the request line (method, path)
    matched,    \* per connection: the route the router selected
    ret,        \* per connection: the object the endpoint returned
    resp        \* per connection: the response sent

vars == <<name, pc, app, servers, rpc, req, matched, ret, resp>>

----------------------------------------------------------------------------
\* Python values, tagged with their type.

PyStr(s) == [t |-> "str", v |-> s]
PyInt(i) == [t |-> "int", v |-> i]
PyNone == [t |-> "NoneType"]
PyDict(items) == [t |-> "dict", items |-> items]
PyList(elems) == [t |-> "list", elems |-> elems]
PyModel(cls, fields) == [t |-> cls, fields |-> fields]

\* The outcome of a call: a returned value or a raised exception.
Returned(v) == [exc |-> "none", value |-> v]
Raised(e) == [exc |-> e]

----------------------------------------------------------------------------
\* Line 4: app = FastAPI(title="API Service", version="1.0.0")

FastAPI(title, version) == [title |-> title, version |-> version, routes |-> <<>>]

\* Faulty variant: the application is declared with another version.
app_wrong_version == FastAPI("API Service", "1.0.1")

app_construct == FastAPI("API Service", "1.0.0")

Unbound == [unbound |-> TRUE]

\* Lines 6-8: class HealthResponse(BaseModel) with two required str fields.
HealthResponseFields == {"status", "version"}

HealthResponse(kwargs) ==
    IF /\ HealthResponseFields \subseteq DOMAIN kwargs
       /\ \A f \in HealthResponseFields : kwargs[f].t = "str"
    THEN Returned(PyModel("HealthResponse",
                          [f \in HealthResponseFields |-> kwargs[f]]))
    ELSE Raised("ValidationError")

----------------------------------------------------------------------------
\* Lines 10-16: the two endpoint functions and their registration.

\* Faulty variant: the two keyword arguments are exchanged.
health_check_swapped ==
    HealthResponse([status |-> PyStr("1.0.0"), version |-> PyStr("healthy")])

\* Faulty variant: version is passed None instead of a str.
health_check_none ==
    HealthResponse([status |-> PyStr("healthy"), version |-> PyNone])

health_check ==
    HealthResponse([status |-> PyStr("healthy"), version |-> PyStr("1.0.0")])

\* Faulty variant: both records carry id 1.
get_users_duplicate ==
    Returned(PyList(<<PyDict([id |-> PyInt(1), name |-> PyStr("John")]),
                      PyDict([id |-> PyInt(1), name |-> PyStr("Jane")])>>))

\* Faulty variant: the records are listed in the other order.
get_users_reordered ==
    Returned(PyList(<<PyDict([id |-> PyInt(2), name |-> PyStr("Jane")]),
                      PyDict([id |-> PyInt(1), name |-> PyStr("John")])>>))

get_users ==
    Returned(PyList(<<PyDict([id |-> PyInt(1), name |-> PyStr("John")]),
                      PyDict([id |-> PyInt(2), name |-> PyStr("Jane")])>>))

\* @app.get(path, response_model=...): appends a GET route to app.routes.
AppGet(a, path, response_model, fn) ==
    [a EXCEPT !.routes = Append(@, [path |-> path,
                                    methods |-> {"GET"},
                                    response_model |-> response_model,
                                    endpoint |-> fn])]

\* Calling an endpoint function by name; neither takes an argument.
CallEndpoint(fn) ==
    IF fn = "health_check" THEN health_check ELSE get_users

----------------------------------------------------------------------------
\* Routing: the routes are tried in registration order. The first route whose
\* path and method both match handles the request; failing that, a route
\* whose path alone matches answers 405; failing that, the answer is 404.

Match(route, r) ==
    IF route.path # r.path THEN "NONE"
    ELSE IF r.method \in route.methods THEN "FULL"
    ELSE "PARTIAL"

Resolve(routes, r) ==
    LET full == {i \in DOMAIN routes : Match(routes[i], r) = "FULL"}
        partial == {i \in DOMAIN routes : Match(routes[i], r) = "PARTIAL"}
        first(S) == CHOOSE i \in S : \A j \in S : i <= j
    IN  IF full # {} THEN [match |-> "FULL", route |-> routes[first(full)]]
        ELSE IF partial # {} THEN [match |-> "PARTIAL"]
        ELSE [match |-> "NONE"]

----------------------------------------------------------------------------
\* Serialisation of an endpoint's return value into a JSON body. JSON values
\* are untagged: strings, integers, records (objects), sequences (arrays).

RECURSIVE jsonable_encoder(_)
jsonable_encoder(v) ==
    IF v.t \in {"str", "int"} THEN v.v
    ELSE IF v.t = "dict"
        THEN [k \in DOMAIN v.items |-> jsonable_encoder(v.items[k])]
    ELSE IF v.t = "list"
        THEN [i \in DOMAIN v.elems |-> jsonable_encoder(v.elems[i])]
    ELSE [k \in DOMAIN v.fields |-> jsonable_encoder(v.fields[k])]

\* With a response_model the returned value is validated against the model
\* and only the model's fields are sent; without one it is encoded as is.
SerializeResponse(response_model, value) ==
    IF response_model = "HealthResponse"
    THEN LET kwargs == IF value.t = "HealthResponse" THEN value.fields
                       ELSE IF value.t = "dict" THEN value.items
                       ELSE <<>>
             checked == HealthResponse(kwargs)
         IN  IF checked.exc = "none"
             THEN Returned(jsonable_encoder(checked.value))
             ELSE Raised("ResponseValidationError")
    ELSE Returned(jsonable_encoder(value))

OK(body) == [status |-> 200, body |-> body]
NotFound == [status |-> 404, body |-> [detail |-> "Not Found"]]
MethodNotAllowed == [status |-> 405, body |-> [detail |-> "Method Not Allowed"]]
InternalServerError == [status |-> 500, body |-> "Internal Server Error"]

----------------------------------------------------------------------------
\* Lines 18-20: the process entry.

\* Faulty variant: the __name__ guard is missing.
IsEntryPointAlways == TRUE

IsEntryPoint == name = "__main__"

UvicornRun(a, host, port) == [app |-> a, host |-> host, port |-> port]

----------------------------------------------------------------------------
\* Execution of the module body.

NoRequest == [method |-> "", path |-> ""]
NoRoute == [path |-> ""]
NoObject == [id |-> 0]
NoResponse == [status |-> 0]

Init ==
    /\ name \in ModuleNames
    /\ pc = "L4"
    /\ app = Unbound
    /\ servers = <<>>
    /\ rpc = [c \in Conn |-> "idle"]
    /\ req = [c \in Conn |-> NoRequest]
    /\ matched = [c \in Conn |-> NoRoute]
    /\ ret = [c \in Conn |-> NoObject]
    /\ resp = [c \in Conn |-> NoResponse]

ConstructApp ==
    /\ pc = "L4"
    /\ app' = app_construct
    /\ pc' = "L10"
    /\ UNCHANGED <<name, servers, rpc, req, matched, ret, resp>>

RegisterHealth ==
    /\ pc = "L10"
    /\ app' = AppGet(app, "/health", "HealthResponse", "health_check")
    /\ pc' = "L14"
    /\ UNCHANGED <<name, servers, rpc, req, matched, ret, resp>>

RegisterUsers ==
    /\ pc = "L14"
    /\ app' = AppGet(app, "/api/users", "None", "get_users")
    /\ pc' = "L18"
    /\ UNCHANGED <<name, servers, rpc, req, matched, ret, resp>>

\* if __name__ == "__main__": uvicorn.run(app, host="0.0.0.0", port=8000).
\* uvicorn.run does not return while the server runs.
EntryPoint ==
    /\ pc = "L18"
    /\ IF IsEntryPoint
       THEN /\ servers' = Append(servers, UvicornRun(app, "0.0.0.0", 8000))
            /\ pc' = "running"
       ELSE /\ pc' = "end"
            /\ UNCHANGED servers
    /\ UNCHANGED <<name, app, rpc, req, matched, ret, resp>>

----------------------------------------------------------------------------
\* Request handling. Requests reach the application once the module body has
\* run: through the server started at line 20, or through whatever imported
\* the module and serves `app`.

Serving == pc \in {"running", "end"}

Receive(c) ==
    /\ Serving
    /\ rpc[c] = "idle"
    /\ \E m \in Methods, p \in Paths :
          req' = [req EXCEPT ![c] = [method |-> m, path |-> p]]
    /\ rpc' = [rpc EXCEPT ![c] = "received"]
    /\ UNCHANGED <<name, pc, app, servers, matched, ret, resp>>

Route(c) ==
    /\ rpc[c] = "received"
    /\ LET m == Resolve(app.routes, req[c])
       IN  IF m.match = "FULL"
           THEN /\ matched' = [matched EXCEPT ![c] = m.route]
                /\ rpc' = [rpc EXCEPT ![c] = "routed"]
                /\ UNCHANGED resp
           ELSE /\ resp' = [resp EXCEPT ![c] =
                                IF m.match = "PARTIAL" THEN MethodNotAllowed
                                ELSE NotFound]
                /\ rpc' = [rpc EXCEPT ![c] = "responded"]
                /\ UNCHANGED matched
    /\ UNCHANGED <<name, pc, app, servers, req, ret>>

\* Every evaluation of a constructor call or of a list display makes a new
\* object: its identity differs from that of every object still alive.
NewId == CHOOSE i \in 1 .. MaxRequests :
            /\ \A d \in Conn : ret[d].id # i
            /\ \A j \in 1 .. (i - 1) : \E d \in Conn : ret[d].id = j

\* Faulty variant: the returned object is one module-level object that
\* every request in flight ends up holding.
CallShared(c) ==
    /\ rpc[c] = "routed"
    /\ LET out == CallEndpoint(matched[c].endpoint)
           obj == [id |-> 1, value |-> out.value]
       IN  /\ ret' = [d \in Conn |-> IF d = c \/ ret[d] # NoObject
                                      THEN obj ELSE ret[d]]
           /\ rpc' = [rpc EXCEPT ![c] = "returned"]
           /\ UNCHANGED resp
    /\ UNCHANGED <<name, pc, app, servers, req, matched>>

\* Faulty variant: the endpoint call registers a route again.
CallMutatesApp(c) ==
    /\ rpc[c] = "routed"
    /\ LET out == CallEndpoint(matched[c].endpoint)
       IN  /\ ret' = [ret EXCEPT ![c] = [id |-> NewId, value |-> out.value]]
           /\ rpc' = [rpc EXCEPT ![c] = "returned"]
           /\ UNCHANGED resp
    /\ app' = AppGet(app, "/api/users", "None", "get_users")
    /\ UNCHANGED <<name, pc, servers, req, matched>>

Call(c) ==
    /\ rpc[c] = "routed"
    /\ LET out == CallEndpoint(matched[c].endpoint)
       IN  IF out.exc = "none"
           THEN /\ ret' = [ret EXCEPT ![c] = [id |-> NewId, value |-> out.value]]
                /\ rpc' = [rpc EXCEPT ![c] = "returned"]
                /\ UNCHANGED resp
           ELSE /\ resp' = [resp EXCEPT ![c] = InternalServerError]
                /\ rpc' = [rpc EXCEPT ![c] = "responded"]
                /\ UNCHANGED ret
    /\ UNCHANGED <<name, pc, app, servers, req, matched>>

\* The returned object is serialised, sent, and dropped.
Respond(c) ==
    /\ rpc[c] = "returned"
    /\ LET out == SerializeResponse(matched[c].response_model, ret[c].value)
       IN  resp' = [resp EXCEPT ![c] = IF out.exc = "none" THEN OK(out.value)
                                       ELSE InternalServerError]
    /\ ret' = [ret EXCEPT ![c] = NoObject]
    /\ rpc' = [rpc EXCEPT ![c] = "responded"]
    /\ UNCHANGED <<name, pc, app, servers, req, matched>>

\* The client has read the response; the connection takes the next request.
Close(c) ==
    /\ rpc[c] = "responded"
    /\ rpc' = [rpc EXCEPT ![c] = "idle"]
    /\ req' = [req EXCEPT ![c] = NoRequest]
    /\ matched' = [matched EXCEPT ![c] = NoRoute]
    /\ resp' = [resp EXCEPT ![c] = NoResponse]
    /\ UNCHANGED <<name, pc, app, servers, ret>>

Next ==
    \/ ConstructApp
    \/ RegisterHealth
    \/ RegisterUsers
    \/ EntryPoint
    \/ \E c \in Conn : Receive(c)
    \/ \E c \in Conn : Route(c)
    \/ \E c \in Conn : Call(c)
    \/ \E c \in Conn : Respond(c)
    \/ \E c \in Conn : Close(c)

Spec == Init /\ [][Next]_vars
----------------------------------------------------------------------------
\* Vocabulary of the properties.

IsGet(c, path) == req[c].method = "GET" /\ req[c].path = path

Responded(c) == rpc[c] = "responded"

\* The (method, path) pairs an application answers.
RouteTable(a) ==
    UNION {{<<m, a.routes[i].path>> : m \in a.routes[i].methods} :
            i \in DOMAIN a.routes}

BothRoutes == {<<"GET", "/health">>, <<"GET", "/api/users">>}

\* The response to request r when it is the only request the service handles:
\* routing, the endpoint call and serialisation applied one after the other.
AloneResponse(r) ==
    LET m == Resolve(app.routes, r)
    IN  IF m.match = "PARTIAL" THEN MethodNotAllowed
        ELSE IF m.match = "NONE" THEN NotFound
        ELSE LET out == CallEndpoint(m.route.endpoint)
             IN  IF out.exc # "none" THEN InternalServerError
                 ELSE LET body == SerializeResponse(m.route.response_model,
                                                    out.value)
                      IN  IF body.exc = "none" THEN OK(body.value)
                          ELSE InternalServerError

----------------------------------------------------------------------------
\* C1: every response to GET /health has status 200 and a body with exactly
\* the two fields status = "healthy" and version = "1.0.0", whatever other
\* requests were or are being handled.
C1_HealthAlwaysHealthy ==
    \A c \in Conn :
        Responded(c) /\ IsGet(c, "/health") =>
            /\ resp[c].status = 200
            /\ DOMAIN resp[c].body = {"status", "version"}
            /\ resp[c].body.status = "healthy"
            /\ resp[c].body.version = "1.0.0"

C1_Witness ==
    \E c, d \in Conn :
        /\ Responded(c) /\ IsGet(c, "/health") /\ resp[c].status = 200
        /\ Responded(d) /\ IsGet(d, "/api/users")

\* C2: every response to GET /api/users carries exactly two records, whose
\* ids are 1 and 2, each occurring once.
C2_UsersTwoRecords ==
    \A c \in Conn :
        Responded(c) /\ IsGet(c, "/api/users") =>
            /\ resp[c].status = 200
            /\ Len(resp[c].body) = 2
            /\ {resp[c].body[i].id : i \in 1 .. 2} = {1, 2}
            /\ resp[c].body[1].id # resp[c].body[2].id

C2_Witness ==
    \E c, d \in Conn :
        /\ Responded(c) /\ IsGet(c, "/api/users") /\ Len(resp[c].body) = 2
        /\ Responded(d) /\ IsGet(d, "/health")

\* C3: every response to GET /api/users has status 200 and the body
\* [{id: 1, name: "John"}, {id: 2, name: "Jane"}], in this order, each record
\* with exactly the fields id and name.
C3_UsersExactBody ==
    \A c \in Conn :
        Responded(c) /\ IsGet(c, "/api/users") =>
            /\ resp[c].status = 200
            /\ resp[c].body = <<[id |-> 1, name |-> "John"],
                                [id |-> 2, name |-> "Jane"]>>
            /\ \A i \in 1 .. 2 : DOMAIN resp[c].body[i] = {"id", "name"}

C3_Witness ==
    \E c \in Conn :
        /\ Responded(c) /\ IsGet(c, "/api/users")
        /\ resp[c].body[1].name = "John"
        /\ resp[c].body[2].name = "Jane"

\* C4: run as the entry point, the module starts the server exactly once, on
\* host 0.0.0.0 and port 8000, with the application object that carries the
\* /health and /api/users routes; imported, it starts no server.
C4_EntryPointStartsServerOnce ==
    /\ Len(servers) <= 1
    /\ name # "__main__" => servers = <<>>
    /\ name = "__main__" /\ pc # "running" => servers = <<>>
    /\ name = "__main__" => pc # "end"
    /\ name = "__main__" /\ pc = "running" =>
            /\ servers = <<[app |-> app, host |-> "0.0.0.0", port |-> 8000]>>
            /\ RouteTable(servers[1].app) = BothRoutes

C4_Witness ==
    /\ name = "__main__"
    /\ pc = "running"
    /\ Len(servers) = 1
    /\ \E c \in Conn : Responded(c) /\ resp[c].status = 200

\* C5: concurrently handled requests do not interfere. The objects returned
\* to different requests are different objects, a step of one request leaves
\* every other request's data as it was, and each response is the response
\* the same request gets when handled alone.
C5_Inv ==
    /\ \A c, d \in Conn :
            c # d /\ ret[c] # NoObject /\ ret[d] # NoObject =>
                ret[c].id # ret[d].id
    /\ \A c \in Conn : Responded(c) => resp[c] = AloneResponse(req[c])

C5_Frame ==
    \A c \in Conn :
        rpc'[c] # rpc[c] =>
            \A d \in Conn \ {c} :
                /\ rpc'[d] = rpc[d]
                /\ req'[d] = req[d]
                /\ matched'[d] = matched[d]
                /\ ret'[d] = ret[d]
                /\ resp'[d] = resp[d]

C5_NoInterference == []C5_Inv /\ [][C5_Frame]_vars

C5_Witness ==
    \E c, d, e \in Conn :
        /\ rpc[c] = "returned" /\ matched[c].endpoint = "health_check"
        /\ rpc[d] = "returned" /\ matched[d].endpoint = "get_users"
        /\ Responded(e) /\ resp[e].status = 200

\* C6: a request routed to health_check or get_users never ends in an error:
\* the endpoint call raises nothing and the response has status 200.
C6_NoFailurePath ==
    \A c \in Conn :
        /\ rpc[c] = "routed" => CallEndpoint(matched[c].endpoint).exc = "none"
        /\ Responded(c) /\ matched[c] # NoRoute => resp[c].status = 200

C6_Witness ==
    \E c, d \in Conn :
        /\ Responded(c) /\ matched[c] # NoRoute
        /\ matched[c].endpoint = "health_check"
        /\ Responded(d) /\ matched[d] # NoRoute
        /\ matched[d].endpoint = "get_users"

\* C7: handling requests leaves the application unchanged. While requests are
\* served, the title is "API Service", the version "1.0.0", the routes are
\* GET /health and GET /api/users, and no step changes `app`.
C7_Inv ==
    Serving =>
        /\ app.title = "API Service"
        /\ app.version = "1.0.0"
        /\ RouteTable(app) = BothRoutes
        /\ Len(app.routes) = 2

C8_VersionsAgree ==
    \A c \in Conn :
        Responded(c) /\ IsGet(c, "/health") =>
            /\ resp[c].status = 200
            /\ resp[c].body.version = app.version

C8_Witness ==
    \E c \in Conn :
        /\ Responded(c) /\ IsGet(c, "/health")
        /\ resp[c].status = 200
        /\ app.version = "1.0.0"
====
